---- MODULE Spec2Model ----
(***************************************************************************)
(* Model of package sortutil: the positional transforms of seq.go (Reverse, *)
(* Rotate, Skew, Shuffle) and the sort.Interface wrappers of wrappers.go    *)
(* (sub, rev, proxy, Stat, Log), all driven through Len / Less / Swap.      *)
(*                                                                          *)
(* A sort.Interface value is a record tagged by its dynamic type:           *)
(*   [kind |-> "slice", id |-> a]            a ByteSlice / sort.IntSlice    *)
(*                                           whose backing array is mem[a]  *)
(*   [kind |-> "sub",   s |-> v, i, n]       struct sub                     *)
(*   [kind |-> "rev",   s |-> v]             struct rev                     *)
(*   [kind |-> "proxy", c |-> v, d |-> <<v>>] struct proxy                  *)
(*   [kind |-> "letters", id |-> a]          a *Letters over the array      *)
(*   [kind |-> "Stat", id |-> a]             a *Stat, the struct is mem[a]  *)
(*   [kind |-> "Log",  id |-> a]             a *Log, the struct is mem[a]   *)
(* Every method takes the machine state m = [mem, calls, panic, n, b] and   *)
(* returns the machine state after the call: mem the backing arrays, calls  *)
(* the method calls that reached a slice, panic whether the goroutine has   *)
(* panicked, n / b / v / str the int / bool / sort.Interface / string the   *)
(* call returned, depth the Skew frames on the call stack, frames the Skew  *)
(* calls entered so far, out the lines written to the Log's io.Writer.  Go  *)
(* indices are 0-based, so b[i] is mem[a][i + 1].                           *)
(***************************************************************************)
EXTENDS Integers, Sequences, FiniteSets

VARIABLES
    mem,        \* the backing array of every slice
    calls,      \* the calls the last operation made on slices, in order
    panicked,   \* the last operation panicked
    view,       \* the sort.Interface value under test
    pre,        \* [mem, view] as they were when the last operation began
    mem0,       \* mem as it was when view was constructed
    op,         \* the last operation, its arguments and what it returned
    build,      \* which body of rev.Less is compiled in
    made        \* the Len / Less / Swap calls made on view since it was built

vars == <<mem, calls, panicked, view, pre, mem0, op, build, made>>

\* Largest length of the sequence handed to Reverse, Rotate, Skew, Shuffle.
MaxN == 6

\* Largest length of the slice under a view, and most wrapper layers of a view.
MaxLen == 3
MaxDepth == 2

\* Largest length of the sequence under a Stat, and most calls of one method
\* made on a Stat or a Log.
MaxStatLen == 2
MaxCalls == 2

\* Largest length of the sequence a Log starts on: the first length with a
\* last index of two digits.
MaxLogLen == 11

\* ------------------------------------------------------------------------
\* Go arithmetic

Abs(a) == IF a < 0 THEN 0 - a ELSE a

\* Go's % truncates toward zero: the result has the sign of the dividend
\* (b # 0; the caller panics on b = 0).
GoRem(a, b) == IF a >= 0 THEN a % Abs(b) ELSE 0 - ((0 - a) % Abs(b))

\* ------------------------------------------------------------------------
\* Machine state

Nil == [kind |-> "nil"]

Machine(memory) ==
    [mem |-> memory, calls |-> <<>>, panic |-> FALSE, n |-> 0, b |-> FALSE, v |-> Nil, str |-> <<>>,
     depth |-> 0, frames |-> <<>>, out |-> <<>>]

\* A run-time panic: nothing after it executes.
Panic(m) == [m EXCEPT !.panic = TRUE]

Call(a, f, i, j) == [on |-> a, f |-> f, i |-> i, j |-> j]

InRange(s, i) == 0 <= i /\ i < Len(s)

\* A function call pushes a frame with its arguments on the call stack; the
\* return pops it.  depth is the number of frames above the new one.
Frame(i, j, k, depth) == [i |-> i, j |-> j, k |-> k, depth |-> depth]

Enter(m, i, j, k) ==
    [m EXCEPT !.frames = Append(@, Frame(i, j, k, m.depth)), !.depth = @ + 1]

Return(m) == [m EXCEPT !.depth = @ - 1]

\* ------------------------------------------------------------------------
\* containers.go

ByteSlice(a) == [kind |-> "slice", id |-> a]

ByteSlice_Len(m, a) ==
    IF m.panic THEN m
    ELSE [m EXCEPT !.calls = Append(@, Call(a, "Len", -1, -1)),
                   !.n = Len(m.mem[a])]

ByteSlice_Less(m, a, i, j) ==
    IF m.panic THEN m
    ELSE IF ~(InRange(m.mem[a], i) /\ InRange(m.mem[a], j)) THEN Panic(m)
    ELSE [m EXCEPT !.calls = Append(@, Call(a, "Less", i, j)),
                   !.b = m.mem[a][i + 1] < m.mem[a][j + 1]]

ByteSlice_Swap(m, a, i, j) ==
    IF m.panic THEN m
    ELSE IF ~(InRange(m.mem[a], i) /\ InRange(m.mem[a], j)) THEN Panic(m)
    ELSE [m EXCEPT !.calls = Append(@, Call(a, "Swap", i, j)),
                   !.mem[a] = [@ EXCEPT ![i + 1] = m.mem[a][j + 1],
                                        ![j + 1] = m.mem[a][i + 1]]]

\* func (b ByteSlice) String() string { return string(b) }
ByteSlice_String(m, a) == IF m.panic THEN m ELSE [m EXCEPT !.str = m.mem[a]]

\* *Letters: a struct that embeds ByteSlice, so Len, Less, Swap and String
\* are ByteSlice's; id names the backing array.
Letters(a) == [kind |-> "letters", id |-> a]

\* A byte holds the value modulo 256.
Byte(x) == x % 256

\* c[i] -= o; c[j] -= o on a copy c of the bytes, o = 'a' - 'A'.
Letters_Mark(m, a, i, j) ==
    IF m.panic THEN m
    ELSE IF ~(InRange(m.mem[a], i) /\ InRange(m.mem[a], j)) THEN Panic(m)
    ELSE LET c1 == [m.mem[a] EXCEPT ![i + 1] = Byte(@ - 32)]
             c2 == [c1 EXCEPT ![j + 1] = Byte(@ - 32)]
         IN  [m EXCEPT !.str = c2]

\* 'a' + byte(i) % ('z'-'a'+1) for i = 0 .. n-1
NewLetterSeq(n) == [x \in 1..n |-> 97 + ((x - 1) % 26)]

\* s[i] = i for i = 0 .. n-1
NewIntSeq(n) == [x \in 1..n |-> x - 1]

\* ------------------------------------------------------------------------
\* sort.Interface: dynamic dispatch on the value's type

RECURSIVE IfaceLen(_, _)
RECURSIVE IfaceLess(_, _, _, _)
RECURSIVE IfaceSwap(_, _, _, _)

\* ------------------------------------------------------------------------
\* wrappers.go: sub

sub(s, i, n) == [kind |-> "sub", s |-> s, i |-> i, n |-> n]

sub_Len(m, s) == IF m.panic THEN m ELSE [m EXCEPT !.n = s.n]

sub_Less(m, s, i, j) == IfaceLess(m, s.s, s.i + i, s.i + j)

\* sub.Swap with the offset left off its second index.
sub_SwapSecondUnshifted(m, s, i, j) == IfaceSwap(m, s.s, s.i + i, j)

sub_Swap(m, s, i, j) == IfaceSwap(m, s.s, s.i + i, s.i + j)

\* NewSub without the collapse of a sub of a sub.
NewSubNested(m, s, i, j) ==
    IF m.panic THEN m
    ELSE IF i < 0 \/ j < i THEN Panic(m)
    ELSE LET m1 == IfaceLen(m, s) IN
         IF m1.panic THEN m1
         ELSE IF j > m1.n THEN Panic(m1)
         ELSE [m1 EXCEPT !.v = sub(s, i, j - i)]

\* NewSub that takes j = s.Len() for out of range.
NewSubUpperExclusive(m, s, i, j) ==
    IF m.panic THEN m
    ELSE IF i < 0 \/ j < i THEN Panic(m)
    ELSE LET m1 == IfaceLen(m, s) IN
         IF m1.panic THEN m1
         ELSE IF j >= m1.n THEN Panic(m1)
         ELSE IF s.kind = "sub" THEN [m1 EXCEPT !.v = sub(s.s, s.i + i, j - i)]
         ELSE [m1 EXCEPT !.v = sub(s, i, j - i)]

\* || short-circuits: s.Len() is called only when 0 <= i <= j.
NewSub(m, s, i, j) ==
    IF m.panic THEN m
    ELSE IF i < 0 \/ j < i THEN Panic(m)
    ELSE LET m1 == IfaceLen(m, s) IN
         IF m1.panic THEN m1
         ELSE IF j > m1.n THEN Panic(m1)
         ELSE IF s.kind = "sub" THEN [m1 EXCEPT !.v = sub(s.s, s.i + i, j - i)]
         ELSE [m1 EXCEPT !.v = sub(s, i, j - i)]

\* ------------------------------------------------------------------------
\* wrappers.go: rev.  Len and Swap are promoted from the embedded Interface.

rev(s) == [kind |-> "rev", s |-> s]

\* NewRev without the type assertion s.(rev): it wraps a rev in a rev.
NewRevAlwaysWraps(m, s) ==
    IF m.panic THEN m ELSE [m EXCEPT !.v = rev(s)]

NewRev(m, s) ==
    IF m.panic THEN m
    ELSE IF s.kind = "rev" THEN [m EXCEPT !.v = s.s]
    ELSE [m EXCEPT !.v = rev(s)]

rev_Len(m, r) == IfaceLen(m, r.s)

rev_Swap(m, r, i, j) == IfaceSwap(m, r.s, i, j)

\* return !r.Interface.Less(i, j)
rev_Less_not(m, r, i, j) ==
    LET m1 == IfaceLess(m, r.s, i, j) IN
    IF m1.panic THEN m1 ELSE [m1 EXCEPT !.b = ~m1.b]

\* return r.Interface.Less(j, i)
rev_Less_swapped(m, r, i, j) == IfaceLess(m, r.s, j, i)

\* rev.Less that forwards the comparison as it is.
rev_LessForwarded(m, r, i, j) == IfaceLess(m, r.s, i, j)

\* The repository holds both bodies of rev.Less (wrappers.go has the first,
\* the later text of the wrappers with NewStat and Analyze the second); build
\* says which one is compiled in, and never changes.
rev_Less(m, r, i, j) ==
    IF build = "not" THEN rev_Less_not(m, r, i, j) ELSE rev_Less_swapped(m, r, i, j)

\* ------------------------------------------------------------------------
\* wrappers.go: proxy

proxy(c, d) == [kind |-> "proxy", c |-> c, d |-> d]

\* for _, d := range data { if l != d.Len() { panic(panicmsg) } }
RECURSIVE NewProxyCheck(_, _, _, _)
NewProxyCheck(m, l, data, x) ==
    IF m.panic \/ x > Len(data) THEN m
    ELSE LET m1 == IfaceLen(m, data[x]) IN
         IF m1.panic THEN m1
         ELSE IF l # m1.n THEN Panic(m1)
         ELSE NewProxyCheck(m1, l, data, x + 1)

\* NewProxy that compares only the first item of data with comp.
NewProxyFirstOnly(m, comp, data) ==
    IF m.panic THEN m
    ELSE LET m1 == IfaceLen(m, comp)
             m2 == NewProxyCheck(m1, m1.n, IF data = <<>> THEN data ELSE <<data[1]>>, 1) IN
         IF m2.panic THEN m2 ELSE [m2 EXCEPT !.v = proxy(comp, data)]

NewProxy(m, comp, data) ==
    IF m.panic THEN m
    ELSE LET m1 == IfaceLen(m, comp)
             m2 == NewProxyCheck(m1, m1.n, data, 1) IN
         IF m2.panic THEN m2 ELSE [m2 EXCEPT !.v = proxy(comp, data)]

proxy_Len(m, p) == IfaceLen(m, p.c)

proxy_Less(m, p, i, j) == IfaceLess(m, p.c, i, j)

\* for _, d := range p.d { d.Swap(i, j) }
RECURSIVE proxy_SwapEach(_, _, _, _, _)
proxy_SwapEach(m, d, x, i, j) ==
    IF m.panic \/ x > Len(d) THEN m
    ELSE proxy_SwapEach(IfaceSwap(m, d[x], i, j), d, x + 1, i, j)

\* proxy.Swap that leaves the last item of p.d alone.
proxy_SwapAllButLast(m, p, i, j) ==
    proxy_SwapEach(IfaceSwap(m, p.c, i, j), SubSeq(p.d, 1, Len(p.d) - 1), 1, i, j)

\* proxy.Swap that swaps comp after the items of p.d.
proxy_SwapCompLast(m, p, i, j) == IfaceSwap(proxy_SwapEach(m, p.d, 1, i, j), p.c, i, j)

proxy_Swap(m, p, i, j) == proxy_SwapEach(IfaceSwap(m, p.c, i, j), p.d, 1, i, j)

\* ------------------------------------------------------------------------
\* wrappers.go: Stat.  A *Stat is the pointer [kind |-> "Stat", id |-> a] to
\* the struct mem[a] = [I, N, O, Onil]; Onil says that the slice O is nil.

StatAt(a) == [kind |-> "Stat", id |-> a]

\* &Stat{I: data}
AllocStat(m, a, I, O, Onil) ==
    [m EXCEPT !.mem[a] = [I |-> I, N |-> [Len |-> 0, Less |-> 0, Swap |-> 0],
                          O |-> O, Onil |-> Onil],
              !.v = StatAt(a)]

\* make([]struct{ Less, Swap int }, l); a negative l panics.
MakeO(l) == [x \in 1..l |-> [Less |-> 0, Swap |-> 0]]

LogAt(a) == [kind |-> "Log", id |-> a]

\* NewStat calls log.I.Len(), not log.Len(), when data is a *Log.
NewStat(m, data) ==
    IF m.panic THEN m
    ELSE LET m1 == IF data.kind = "Log" THEN IfaceLen(m, m.mem[data.id].I)
                   ELSE IfaceLen(m, data)
         IN  IF m1.panic THEN m1
             ELSE IF m1.n < 0 THEN Panic(m1)
             ELSE AllocStat(m1, "st", data, MakeO(m1.n), FALSE)

\* &Log{I: data, W: w}: n and p are zero.  W is the machine's out.
AllocLog(m, a, I) ==
    [m EXCEPT !.mem[a] = [I |-> I, n |-> 0, p |-> 0], !.v = LogAt(a)]

NewLogStat(m, data) ==
    IF m.panic THEN m ELSE NewStat(AllocLog(m, "lg", data), LogAt("lg"))

\* Stat.Len that counts the call as a Less.
Stat_LenCountsLess(m, s) ==
    IF m.panic THEN m
    ELSE IfaceLen([m EXCEPT !.mem[s.id].N.Less = @ + 1], m.mem[s.id].I)

Stat_Len(m, s) ==
    IF m.panic THEN m
    ELSE IfaceLen([m EXCEPT !.mem[s.id].N.Len = @ + 1], m.mem[s.id].I)

\* s.O[i].Less++ or s.O[i].Swap++: an index outside O panics.
Stat_O(m, s, f, i) ==
    IF m.panic THEN m
    ELSE IF ~InRange(m.mem[s.id].O, i) THEN Panic(m)
    ELSE [m EXCEPT !.mem[s.id].O[i + 1][f] = @ + 1]

Stat_Less(m, s, i, j) ==
    IF m.panic THEN m
    ELSE LET m1 == [m EXCEPT !.mem[s.id].N.Less = @ + 1]
             m2 == IF m1.mem[s.id].Onil THEN m1
                   ELSE Stat_O(Stat_O(m1, s, "Less", i), s, "Less", j)
         IN  IfaceLess(m2, m.mem[s.id].I, i, j)

Stat_Swap(m, s, i, j) ==
    IF m.panic THEN m
    ELSE LET m1 == [m EXCEPT !.mem[s.id].N.Swap = @ + 1]
             m2 == IF m1.mem[s.id].Onil THEN m1
                   ELSE Stat_O(Stat_O(m1, s, "Swap", i), s, "Swap", j)
         IN  IfaceSwap(m2, m.mem[s.id].I, i, j)

\* ------------------------------------------------------------------------
\* wrappers.go: Log.  A *Log is the pointer [kind |-> "Log", id |-> a] to the
\* struct mem[a] = [I, n, p]; the package variable LOG_ITEM_THRESH is
\* mem.LOG_ITEM_THRESH.  A line written to W is a record: f the method,
\* inline whether the line shows the data, before / after what it shows of
\* it, w the width the indices i and j are padded to, n or b the result.

\* var LOG_ITEM_THRESH = 26
LOG_ITEM_THRESH == 26

Line(f, inline, before, w, i, j, n, b, after) ==
    [f |-> f, inline |-> inline, before |-> before, w |-> w, i |-> i, j |-> j,
     n |-> n, b |-> b, after |-> after]

Write(m, line) == [m EXCEPT !.out = Append(@, line)]

\* len(fmt.Sprint(x)) for x >= 0: the number of decimal digits of x.
RECURSIVE Digits(_)
Digits(x) == IF x < 10 THEN 1 ELSE 1 + Digits(x \div 10)

\* fmt.Sprint(l.I) of a value with a String method.
Sprint(m, v) == ByteSlice_String(m, v.id)

\* if m, ok := l.I.(Marker); ok { return m.Mark(i, j) }; return fmt.Sprint(l.I)
Log_Mark(m, l, i, j) ==
    IF m.panic THEN m
    ELSE IF m.mem[l.id].I.kind = "letters" THEN Letters_Mark(m, m.mem[l.id].I.id, i, j)
    ELSE Sprint(m, m.mem[l.id].I)

\* Log.Len that fills in p and leaves n as it was.
Log_LenKeepsN(m, l) ==
    IF m.panic THEN m
    ELSE LET m1 == IfaceLen(m, m.mem[l.id].I)
             r  == m1.n
             m2 == [m1 EXCEPT !.mem[l.id].p = IF r > 0 THEN Digits(r - 1) ELSE 0]
         IN  IF m1.panic THEN m1
             ELSE IF r <= m2.mem.LOG_ITEM_THRESH
                  THEN [Write(m2, Line("Len", TRUE, Sprint(m2, m2.mem[l.id].I).str,
                                       0, -1, -1, r, FALSE, <<>>)) EXCEPT !.n = r]
                  ELSE [Write(m2, Line("Len", FALSE, <<>>, 0, -1, -1, r, FALSE, <<>>))
                           EXCEPT !.n = r]

Log_Len(m, l) ==
    IF m.panic THEN m
    ELSE LET m1 == IfaceLen(m, m.mem[l.id].I)
             r  == m1.n
             m2 == [m1 EXCEPT !.mem[l.id].n = r,
                              !.mem[l.id].p = IF r > 0 THEN Digits(r - 1) ELSE 0]
         IN  IF m1.panic THEN m1
             ELSE IF r <= m2.mem.LOG_ITEM_THRESH
                  THEN [Write(m2, Line("Len", TRUE, Sprint(m2, m2.mem[l.id].I).str,
                                       0, -1, -1, r, FALSE, <<>>)) EXCEPT !.n = r]
                  ELSE [Write(m2, Line("Len", FALSE, <<>>, 0, -1, -1, r, FALSE, <<>>))
                           EXCEPT !.n = r]

\* Log.Less that compares n with the threshold only.
Log_LessAnyN(m, l, i, j) ==
    IF m.panic THEN m
    ELSE LET m1 == IfaceLess(m, m.mem[l.id].I, i, j)
             r  == m1.b
             o  == m1.mem[l.id]
             mk == Log_Mark(m1, l, i, j)
         IN  IF m1.panic THEN m1
             ELSE IF o.n <= m1.mem.LOG_ITEM_THRESH
                  THEN IF mk.panic THEN mk
                       ELSE [Write(mk, Line("Less", TRUE, mk.str, o.p, i, j, 0, r, <<>>))
                                EXCEPT !.b = r]
                  ELSE [Write(m1, Line("Less", FALSE, <<>>, o.p, i, j, 0, r, <<>>))
                           EXCEPT !.b = r]

Log_Less(m, l, i, j) ==
    IF m.panic THEN m
    ELSE LET m1 == IfaceLess(m, m.mem[l.id].I, i, j)
             r  == m1.b
             o  == m1.mem[l.id]
             mk == Log_Mark(m1, l, i, j)
         IN  IF m1.panic THEN m1
             ELSE IF o.n <= m1.mem.LOG_ITEM_THRESH /\ o.n > 0
                  THEN IF mk.panic THEN mk
                       ELSE [Write(mk, Line("Less", TRUE, mk.str, o.p, i, j, 0, r, <<>>))
                                EXCEPT !.b = r]
                  ELSE [Write(m1, Line("Less", FALSE, <<>>, o.p, i, j, 0, r, <<>>))
                           EXCEPT !.b = r]

Log_Swap(m, l, i, j) ==
    IF m.panic THEN m
    ELSE LET o == m.mem[l.id] IN
         IF o.n > m.mem.LOG_ITEM_THRESH \/ o.n <= 0
         THEN LET m1 == IfaceSwap(m, o.I, i, j) IN
              IF m1.panic THEN m1
              ELSE Write(m1, Line("Swap", FALSE, <<>>, o.p, i, j, 0, FALSE, <<>>))
         ELSE LET v  == Log_Mark(m, l, i, j)
                  m1 == IfaceSwap(v, o.I, i, j)
                  m2 == Log_Mark(m1, l, i, j)
              IN  IF m2.panic THEN m2
                  ELSE Write(m2, Line("Swap", TRUE, v.str, o.p, i, j, 0, FALSE, m2.str))

\* ------------------------------------------------------------------------

IfaceLen(m, v) ==
    CASE v.kind = "slice" -> ByteSlice_Len(m, v.id)
      [] v.kind = "letters" -> ByteSlice_Len(m, v.id)
      [] v.kind = "Stat"  -> Stat_Len(m, v)
      [] v.kind = "Log"   -> Log_Len(m, v)
      [] v.kind = "sub"   -> sub_Len(m, v)
      [] v.kind = "rev"   -> rev_Len(m, v)
      [] v.kind = "proxy" -> proxy_Len(m, v)

IfaceLess(m, v, i, j) ==
    CASE v.kind = "slice" -> ByteSlice_Less(m, v.id, i, j)
      [] v.kind = "letters" -> ByteSlice_Less(m, v.id, i, j)
      [] v.kind = "Stat"  -> Stat_Less(m, v, i, j)
      [] v.kind = "Log"   -> Log_Less(m, v, i, j)
      [] v.kind = "sub"   -> sub_Less(m, v, i, j)
      [] v.kind = "rev"   -> rev_Less(m, v, i, j)
      [] v.kind = "proxy" -> proxy_Less(m, v, i, j)

IfaceSwap(m, v, i, j) ==
    CASE v.kind = "slice" -> ByteSlice_Swap(m, v.id, i, j)
      [] v.kind = "letters" -> ByteSlice_Swap(m, v.id, i, j)
      [] v.kind = "Stat"  -> Stat_Swap(m, v, i, j)
      [] v.kind = "Log"   -> Log_Swap(m, v, i, j)
      [] v.kind = "sub"   -> sub_Swap(m, v, i, j)
      [] v.kind = "rev"   -> rev_Swap(m, v, i, j)
      [] v.kind = "proxy" -> proxy_Swap(m, v, i, j)

\* ------------------------------------------------------------------------
\* seq.go

RECURSIVE ReverseLoop(_, _, _, _)

\* The loop of Reverse run up to n instead of n/2.
ReverseLoopWhole(m, data, n, i) ==
    IF m.panic \/ ~(i < n) THEN m
    ELSE ReverseLoop(IfaceSwap(m, data, i, n - i - 1), data, n, i + 1)

\* for i := 0; i < n/2; i++ { data.Swap(i, n-i-1) }
ReverseLoop(m, data, n, i) ==
    IF m.panic \/ ~(i < n \div 2) THEN m
    ELSE ReverseLoop(IfaceSwap(m, data, i, n - i - 1), data, n, i + 1)

Reverse(m, data) ==
    LET m1 == IfaceLen(m, data) IN ReverseLoop(m1, data, m1.n, 0)

RECURSIVE Skew(_, _, _, _, _)

RECURSIVE SkewSlide(_, _, _, _, _)

\* The loop of Skew run while i <= j: one Swap more.
SkewSlideOneMore(m, data, i, j, k) ==
    IF m.panic \/ ~(i <= j) THEN m
    ELSE SkewSlide(IfaceSwap(m, data, i, i + k), data, i + 1, j, k)

\* for ; i < j; i++ { data.Swap(i, i+k) }
SkewSlide(m, data, i, j, k) ==
    IF m.panic \/ ~(i < j) THEN m
    ELSE SkewSlide(IfaceSwap(m, data, i, i + k), data, i + 1, j, k)

\* SkewHalves that splits the block into its first element and the rest.
SkewHalvesPeelOne(m, data, i, j, k) ==
    LET p == 1
        q == k - p
    IN  Skew(Skew(m, data, i + p, j + p, q), data, i, j, p)

\* SkewHalves with the two recursive calls in the other order.
SkewHalvesLowerFirst(m, data, i, j, k) ==
    LET p == k \div 2
        q == k - p
    IN  Skew(Skew(m, data, i, j, p), data, i + p, j + p, q)

\* j-i < k: the block size is larger than the delta
SkewHalves(m, data, i, j, k) ==
    LET p == k \div 2
        q == k - p
    IN  Skew(Skew(m, data, i + p, j + p, q), data, i, j, p)

\* (j-i) % k != 0: the delta is not evenly divisible by the block size
SkewRemainder(m, data, i, j, k) ==
    LET p == GoRem(j - i, k)
    IN  Skew(Skew(m, data, i, j - p, k), data, j - p, j, k)

Skew(m, data, i0, j0, k0) ==
    IF m.panic THEN m
    ELSE LET m0 == Enter(m, i0, j0, k0)
             i == IF j0 < i0 THEN j0 ELSE i0
             j == IF j0 < i0 THEN j0 + k0 ELSE j0
             k == IF j0 < i0 THEN i0 - j0 ELSE k0
         IN  Return(IF k0 = 0 \/ i0 = j0 THEN m0
                    ELSE IF j - i < k THEN SkewHalves(m0, data, i, j, k)
                    ELSE IF GoRem(j - i, k) # 0 THEN SkewRemainder(m0, data, i, j, k)
                    ELSE SkewSlide(m0, data, i, j, k))

\* Rotate with the two blocks exchanged the other way round: a shift to the left.
RotateLeftward(m, data, d) ==
    LET m1 == IfaceLen(m, data)
        k  == m1.n
    IN  IF m1.panic THEN m1
        ELSE IF k = 0 THEN Panic(m1)
        ELSE Skew(m1, data, 0, k - GoRem(k + d, k), GoRem(k + d, k))

\* d = (k + d) % k panics with an integer divide by zero when k = 0.
Rotate(m, data, d) ==
    LET m1 == IfaceLen(m, data)
        k  == m1.n
    IN  IF m1.panic THEN m1
        ELSE IF k = 0 THEN Panic(m1)
        ELSE Skew(m1, data, 0, GoRem(k + d, k), k - GoRem(k + d, k))

\* for i, j := range perm { data.Swap(i, j) }
RECURSIVE ShuffleLoop(_, _, _, _)
ShuffleLoop(m, data, perm, i) ==
    IF m.panic \/ i >= Len(perm) THEN m
    ELSE ShuffleLoop(IfaceSwap(m, data, i, perm[i + 1]), data, perm, i + 1)

\* perm is the value of rand.Perm(n): a permutation of 0 .. n-1.
Shuffle(m, data, perm) ==
    LET m1 == IfaceLen(m, data) IN ShuffleLoop(m1, data, perm, 0)

\* ------------------------------------------------------------------------
\* State machine.  op is the call made last, with its arguments and the
\* value it returned; pre is the state in which that call (for RotateBack:
\* the Rotate before it) was made.

NoOp == [f |-> "init", i |-> 0, j |-> 0, k |-> 0, d |-> 0, perm |-> <<>>,
         data |-> <<>>, n |-> 0, b |-> FALSE, frames |-> <<>>, out |-> <<>>]

Now == [mem |-> mem, view |-> view]

\* No call made yet: the number of calls by method, and what the last Len
\* call returned (0 before the first).
NoCalls == [Len |-> 0, Less |-> 0, Swap |-> 0, last |-> 0]

\* The permutations of 0 .. n-1, as rand.Perm(n) returns them.
Perm(n) == {q \in [1..n -> 0..(n - 1)] : \A x, y \in 1..n : q[x] = q[y] => x = y}

\* Every machine step runs one call to completion on the current memory.
Ran(m, o) ==
    /\ mem' = m.mem
    /\ calls' = m.calls
    /\ panicked' = m.panic
    /\ op' = [o EXCEPT !.n = m.n, !.b = m.b, !.frames = m.frames, !.out = m.out]

\* ---- the transforms of seq.go, applied to a ByteSlice b ----

data == ByteSlice("b")

InitSeq ==
    /\ \E n \in 0..MaxN : mem = [a \in {"b"} |-> NewLetterSeq(n)]
    /\ view = data
    /\ pre = Now
    /\ mem0 = mem
    /\ calls = <<>>
    /\ panicked = FALSE
    /\ op = NoOp
    /\ build = "not"
    /\ made = NoCalls

DoSkew ==
    /\ op.f = "init"
    /\ \E i, j, k \in 0..Len(mem.b) :
          Ran(Skew(Machine(mem), view, i, j, k),
              [NoOp EXCEPT !.f = "Skew", !.i = i, !.j = j, !.k = k])
    /\ pre' = Now
    /\ UNCHANGED <<view, mem0, build, made>>

DoRotate ==
    /\ op.f = "init"
    /\ \E d \in (0 - 2 * MaxN)..(2 * MaxN) :
          Ran(Rotate(Machine(mem), view, d), [NoOp EXCEPT !.f = "Rotate", !.d = d])
    /\ pre' = Now
    /\ UNCHANGED <<view, mem0, build, made>>

\* Rotate(data, -d) after a Rotate(data, d) that returned.
DoRotateBack ==
    /\ op.f = "Rotate"
    /\ ~panicked
    /\ Ran(Rotate(Machine(mem), view, 0 - op.d), [op EXCEPT !.f = "RotateBack"])
    /\ UNCHANGED <<pre, view, mem0, build, made>>

DoReverse ==
    /\ op.f = "init"
    /\ Ran(Reverse(Machine(mem), view), [NoOp EXCEPT !.f = "Reverse"])
    /\ pre' = Now
    /\ UNCHANGED <<view, mem0, build, made>>

DoShuffle ==
    /\ op.f = "init"
    /\ \E q \in Perm(Len(mem.b)) :
          Ran(Shuffle(Machine(mem), view, q), [NoOp EXCEPT !.f = "Shuffle", !.perm = q])
    /\ pre' = Now
    /\ UNCHANGED <<view, mem0, build, made>>

NextSeq == DoSkew \/ DoRotate \/ DoRotateBack \/ DoReverse \/ DoShuffle

SpecSeq == InitSeq /\ [][NextSeq]_vars

\* ------------------------------------------------------------------------
\* Claims about seq.go (checked under SpecSeq)

\* The Go element b[x] of the array s.
At(s, x) == s[x + 1]

Min(a, b) == IF a < b THEN a ELSE b
Max(a, b) == IF a < b THEN b ELSE a

SkewInBounds == Max(op.i, op.j) + op.k <= Len(pre.mem.b)

\* C1: Skew(data, i, j, k) with max(i, j) + k <= n returns with the k
\* elements that were at [i, i+k) now at [j, j+k) in their order, the
\* elements that were between the old and the new block position shifted by
\* k in their order, and every other element where it was.
C1_SkewRelocatesBlock ==
    (op.f = "Skew" /\ SkewInBounds) =>
        /\ ~panicked
        /\ Len(mem.b) = Len(pre.mem.b)
        /\ \A t \in 0..(op.k - 1) : At(mem.b, op.j + t) = At(pre.mem.b, op.i + t)
        /\ op.j > op.i =>
              \A x \in (op.i + op.k)..(op.j + op.k - 1) : At(mem.b, x - op.k) = At(pre.mem.b, x)
        /\ op.j < op.i =>
              \A x \in op.j..(op.i - 1) : At(mem.b, x + op.k) = At(pre.mem.b, x)
        /\ \A x \in 0..(Len(pre.mem.b) - 1) :
              (x < Min(op.i, op.j) \/ x >= Max(op.i, op.j) + op.k) =>
                  At(mem.b, x) = At(pre.mem.b, x)

\* A block slid toward larger indices over a gap that is not a multiple of
\* its size (which recurses into the two other branches).
C1_Witness ==
    /\ op.f = "Skew" /\ SkewInBounds /\ ~panicked
    /\ op.k >= 2 /\ op.j - op.i > op.k /\ (op.j - op.i) % op.k # 0
    /\ mem.b # pre.mem.b

\* C2: Rotate(data, d) with n >= 1 and -n < d < n returns with the element
\* that was at index x now at index (x + d) mod n.
C2_RotateShiftsRight ==
    LET n == Len(pre.mem.b) IN
    (op.f = "Rotate" /\ n >= 1 /\ 0 - n < op.d /\ op.d < n) =>
        /\ ~panicked
        /\ Len(mem.b) = n
        /\ \A x \in 0..(n - 1) : At(mem.b, (x + op.d) % n) = At(pre.mem.b, x)

C2_Witness ==
    /\ op.f = "Rotate" /\ ~panicked
    /\ op.d < -1 /\ 0 - Len(pre.mem.b) < op.d
    /\ mem.b # pre.mem.b

\* C3: for n > 0 and every integer d, Rotate(data, d) followed by
\* Rotate(data, -d) returns with the original order restored.
C3_RotateRoundTrip ==
    LET n == Len(pre.mem.b) IN
    /\ (op.f \in {"Rotate", "RotateBack"} /\ n > 0) => ~panicked
    /\ (op.f = "RotateBack" /\ n > 0) => mem.b = pre.mem.b

\* The calls Swap(i, n-1-i) for i = from .. n/2 - 1, in order.
RECURSIVE MirrorSwaps(_, _)
MirrorSwaps(n, from) ==
    IF from >= n \div 2 THEN <<>>
    ELSE <<Call("b", "Swap", from, n - 1 - from)>> \o MirrorSwaps(n, from + 1)

\* C13: Reverse(data) on a sequence of length n >= 0 returns with the element
\* that was at index i now at index n-1-i for every i in [0, n); it does so by
\* one Len call and then Swap(i, n-1-i) for i = 0 .. n/2 - 1 in order, so no
\* Swap names the middle index of an odd-length sequence.
C13_ReverseInverts ==
    LET n == Len(pre.mem.b) IN
    op.f = "Reverse" =>
        /\ ~panicked
        /\ Len(mem.b) = n
        /\ \A i \in 0..(n - 1) : At(mem.b, n - 1 - i) = At(pre.mem.b, i)
        /\ calls = <<Call("b", "Len", -1, -1)>> \o MirrorSwaps(n, 0)
        /\ n % 2 = 1 =>
              \A x \in 1..Len(calls) : calls[x].i # n \div 2 /\ calls[x].j # n \div 2

\* An odd-length sequence, with a middle element and two or more swaps.
C13_Witness ==
    /\ op.f = "Reverse" /\ ~panicked
    /\ Len(pre.mem.b) >= 5 /\ Len(pre.mem.b) % 2 = 1
    /\ mem.b # pre.mem.b
    /\ At(mem.b, Len(mem.b) \div 2) = At(pre.mem.b, Len(mem.b) \div 2)

\* C18: Skew(data, i, j, k) with max(i, j) + k <= n calls nothing on data but
\* Swap(a, b) with a # b and a, b in [min(i, j), max(i, j) + k), a window
\* inside [0, n): it never calls Less (or Len), and the elements outside the
\* window are where they were.
C18_SkewStaysInWindow ==
    LET lo == Min(op.i, op.j)
        hi == Max(op.i, op.j) + op.k
    IN  (op.f = "Skew" /\ SkewInBounds) =>
            /\ ~panicked
            /\ 0 <= lo /\ hi <= Len(pre.mem.b)
            /\ \A x \in 1..Len(calls) :
                  /\ calls[x].f = "Swap"
                  /\ calls[x].on = "b"
                  /\ calls[x].i # calls[x].j
                  /\ lo <= calls[x].i /\ calls[x].i < hi
                  /\ lo <= calls[x].j /\ calls[x].j < hi
            /\ \A x \in 0..(Len(pre.mem.b) - 1) :
                  (x < lo \/ x >= hi) => At(mem.b, x) = At(pre.mem.b, x)

\* A block moved toward smaller indices by several swaps, with elements on
\* both sides of the window.
C18_Witness ==
    /\ op.f = "Skew" /\ SkewInBounds /\ ~panicked
    /\ op.j < op.i /\ op.j > 0 /\ op.i + op.k < Len(pre.mem.b)
    /\ Len(calls) >= 3

\* The arguments of a Skew call after the exchange the body makes when j < i.
NormI(e) == IF e.j < e.i THEN e.j ELSE e.i
NormJ(e) == IF e.j < e.i THEN e.j + e.k ELSE e.j
NormK(e) == IF e.j < e.i THEN e.i - e.j ELSE e.k

\* The branch of the body a Skew call with the arguments of e takes.
Branch(e) ==
    IF e.k = 0 \/ e.i = e.j THEN "return"
    ELSE IF NormJ(e) - NormI(e) < NormK(e) THEN "halves"
    ELSE IF (NormJ(e) - NormI(e)) % NormK(e) # 0 THEN "remainder"
    ELSE "slide"

\* The call that made the call fr[x] (0 for the outermost call), and the
\* arguments of the calls that fr[x] made, in order.
Caller(fr, x) ==
    IF fr[x].depth = 0 THEN 0
    ELSE CHOOSE y \in 1..(x - 1) :
            /\ fr[y].depth = fr[x].depth - 1
            /\ \A z \in (y + 1)..(x - 1) : fr[z].depth >= fr[x].depth

RECURSIVE Callees(_, _, _)
Callees(fr, x, from) ==
    IF from > Len(fr) \/ fr[from].depth <= fr[x].depth THEN <<>>
    ELSE IF fr[from].depth = fr[x].depth + 1
         THEN <<[i |-> fr[from].i, j |-> fr[from].j, k |-> fr[from].k]>> \o Callees(fr, x, from + 1)
         ELSE Callees(fr, x, from + 1)

Triple(i, j, k) == [i |-> i, j |-> j, k |-> k]

\* C16: Skew(data, i, j, k) with max(i, j) + k <= n returns: every call of
\* its recursion either is a base case (k = 0, i = j, the swap loop) that
\* calls Skew no further, or makes two calls whose (block size, distance)
\* after the exchange for j < i is smaller than its own, block size first;
\* the split is taken with k >= 2 only and into ceil(k/2) then floor(k/2).
C16_SkewTerminates ==
    LET fr == op.frames IN
    (op.f = "Skew" /\ SkewInBounds) =>
        /\ ~panicked
        /\ Len(fr) >= 1
        /\ fr[1] = Frame(op.i, op.j, op.k, 0)
        /\ \A x \in 2..Len(fr) : fr[x].depth >= 1
        /\ \A x \in 1..Len(fr) :
              LET e == fr[x]
                  i == NormI(e)
                  j == NormJ(e)
                  k == NormK(e)
              IN  /\ e.i >= 0 /\ e.j >= 0 /\ e.k >= 0
                  /\ Branch(e) \in {"return", "slide"} => Callees(fr, x, x + 1) = <<>>
                  /\ Branch(e) = "halves" =>
                        /\ k >= 2
                        /\ k \div 2 >= 1
                        /\ Callees(fr, x, x + 1) =
                              <<Triple(i + k \div 2, j + k \div 2, k - k \div 2),
                                Triple(i, j, k \div 2)>>
                  /\ Branch(e) = "remainder" =>
                        LET p == (j - i) % k IN
                        Callees(fr, x, x + 1) = <<Triple(i, j - p, k), Triple(j - p, j, k)>>
                  /\ x > 1 =>
                        LET c == fr[Caller(fr, x)] IN
                        \/ NormK(e) < NormK(c)
                        \/ /\ NormK(e) = NormK(c)
                           /\ NormJ(e) - NormI(e) < NormJ(c) - NormI(c)

\* A recursion that takes the split with a block of four or more elements
\* and then splits one of the halves again.
C16_Witness ==
    /\ op.f = "Skew" /\ SkewInBounds /\ ~panicked
    /\ Branch(op.frames[1]) = "halves" /\ NormK(op.frames[1]) >= 4
    /\ \E x \in 2..Len(op.frames) :
          Branch(op.frames[x]) = "halves" /\ op.frames[x].depth = 1
    /\ \E x \in 1..Len(op.frames) : op.frames[x].depth = 2
    /\ Len(calls) >= 4

\* The arrangement Shuffle leaves when rand.Perm returns q, from the state
\* in which the last call was made.
ShuffleResult(q) == Shuffle(Machine(pre.mem), data, q).mem.b

\* C15: over the n! values p of rand.Perm(n), Shuffle of n distinct elements
\* leaves every one of the n! arrangements for the same number of p: that is,
\* for exactly one p each, so no other p leaves the arrangement this p left.
C15_ShuffleUniform ==
    op.f = "Shuffle" =>
        \A q \in Perm(Len(pre.mem.b)) : q # op.perm => ShuffleResult(q) # mem.b

\* ------------------------------------------------------------------------
\* The wrappers of wrappers.go over a ByteSlice s: a view is built by NewSub
\* and NewRev requests, each on the view the previous one returned, and used
\* through Len / Less / Swap with indices in [0, view.Len()).

\* Wrapper layers of a view.
RECURSIVE Depth(_)
Depth(v) == IF v.kind \in {"sub", "rev"} THEN 1 + Depth(v.s) ELSE 0

LenOf(memory, v) == IfaceLen(Machine(memory), v).n

InitView ==
    /\ \E n \in 0..MaxLen : \E s \in [1..n -> {97, 98}] : mem = [a \in {"s"} |-> s]
    /\ view = ByteSlice("s")
    /\ pre = Now
    /\ mem0 = mem
    /\ calls = <<>>
    /\ panicked = FALSE
    /\ op = NoOp
    /\ build \in {"not", "swapped"}
    /\ made = NoCalls

\* view = NewSub(view, i, j); a panic leaves no new view.
DoNewSub ==
    /\ ~panicked
    /\ view.kind = "sub" \/ Depth(view) < MaxDepth
    /\ \E i, j \in (0 - 1)..(LenOf(mem, view) + 1) :
          LET m == NewSub(Machine(mem), view, i, j) IN
          /\ Ran(m, [NoOp EXCEPT !.f = "NewSub", !.i = i, !.j = j])
          /\ view' = IF m.panic THEN view ELSE m.v
    /\ pre' = Now
    /\ mem0' = mem
    /\ UNCHANGED <<build, made>>

\* view = NewRev(view)
DoNewRev ==
    /\ ~panicked
    /\ view.kind = "rev" \/ Depth(view) < MaxDepth
    /\ LET m == NewRev(Machine(mem), view) IN
          /\ Ran(m, [NoOp EXCEPT !.f = "NewRev"])
          /\ view' = m.v
    /\ pre' = Now
    /\ mem0' = mem
    /\ UNCHANGED <<build, made>>

DoLen ==
    /\ ~panicked
    /\ view.kind # "nil"
    /\ Ran(IfaceLen(Machine(mem), view), [NoOp EXCEPT !.f = "Len"])
    /\ pre' = Now
    /\ UNCHANGED <<view, mem0, build, made>>

DoLess ==
    /\ ~panicked
    /\ view.kind # "nil"
    /\ \E i, j \in 0..(LenOf(mem, view) - 1) :
          Ran(IfaceLess(Machine(mem), view, i, j), [NoOp EXCEPT !.f = "Less", !.i = i, !.j = j])
    /\ pre' = Now
    /\ UNCHANGED <<view, mem0, build, made>>

DoSwap ==
    /\ ~panicked
    /\ view.kind # "nil"
    /\ \E i, j \in 0..(LenOf(mem, view) - 1) :
          Ran(IfaceSwap(Machine(mem), view, i, j), [NoOp EXCEPT !.f = "Swap", !.i = i, !.j = j])
    /\ pre' = Now
    /\ UNCHANGED <<view, mem0, build, made>>

NextView == DoNewSub \/ DoNewRev \/ DoLen \/ DoLess \/ DoSwap

SpecView == InitView /\ [][NextView]_vars

\* ------------------------------------------------------------------------
\* Claims about sub and rev (checked under SpecView)

\* Index in the backing array of index 0 of the view v.
RECURSIVE AbsOff(_)
AbsOff(v) ==
    CASE v.kind = "sub" -> v.i + AbsOff(v.s)
      [] v.kind = "rev" -> AbsOff(v.s)
      [] OTHER -> 0

\* memory with the elements x and y of the array a exchanged.
SwapAt(memory, a, x, y) ==
    [memory EXCEPT ![a] = [@ EXCEPT ![x + 1] = memory[a][y + 1], ![y + 1] = memory[a][x + 1]]]

\* C4: v = NewSub(s, i, j) behaves like s[i:j]: v.Len() = j - i, v.Less(a, b)
\* = s.Less(i+a, i+b), v.Swap(a, b) exchanges exactly the positions i+a and
\* i+b of s; and whatever Less / Swap calls are made on v, the elements
\* outside the view's window are the ones that were there when it was built.
C4_SubBehavesLikeSlice ==
    /\ (op.f = "NewSub" /\ ~panicked) =>
          LET s == pre.view
              i == op.i
              j == op.j
              M == Machine(mem)
          IN  /\ IfaceLen(M, view).n = j - i
              /\ \A a, b \in 0..(j - i - 1) :
                    /\ IfaceLess(M, view, a, b).b = IfaceLess(M, s, i + a, i + b).b
                    /\ IfaceSwap(M, view, a, b).mem = IfaceSwap(M, s, i + a, i + b).mem
                    /\ IfaceSwap(M, view, a, b).mem =
                           SwapAt(mem, "s", AbsOff(s) + i + a, AbsOff(s) + i + b)
    /\ view.kind = "sub" =>
          /\ Len(mem.s) = Len(mem0.s)
          /\ \A x \in 0..(Len(mem0.s) - 1) :
                (x < AbsOff(view) \/ x >= AbsOff(view) + view.n) => At(mem.s, x) = At(mem0.s, x)

\* A Swap through a view that starts past the first element changed the slice.
C4_Witness ==
    /\ op.f = "Swap" /\ view.kind = "sub" /\ ~panicked
    /\ view.i > 0 /\ op.i # op.j
    /\ mem.s # pre.mem.s

\* C5: NewSub(s, i2, j2) of a view s = sub{b, i1, n1} is the one-layer view
\* sub{b, i1 + i2, j2 - i2}, the same view as NewSub(b, i1 + i2, i1 + j2), so
\* Len / Less / Swap on it give the same result and effect.
C5_SubOfSubCollapses ==
    (op.f = "NewSub" /\ ~panicked /\ pre.view.kind = "sub") =>
        LET b  == pre.view.s
            i1 == pre.view.i
            M  == Machine(mem)
            once == NewSub(M, b, i1 + op.i, i1 + op.j)
        IN  /\ view.kind = "sub"
            /\ view.s = b
            /\ view.s.kind # "sub"
            /\ view.i = i1 + op.i
            /\ view.n = op.j - op.i
            /\ ~once.panic
            /\ view = once.v
            /\ IfaceLen(M, view).n = IfaceLen(M, once.v).n
            /\ \A x, y \in 0..(view.n - 1) :
                  /\ IfaceLess(M, view, x, y).b = IfaceLess(M, once.v, x, y).b
                  /\ IfaceSwap(M, view, x, y).mem = IfaceSwap(M, once.v, x, y).mem

C5_Witness ==
    /\ op.f = "NewSub" /\ ~panicked /\ pre.view.kind = "sub"
    /\ pre.view.i > 0 /\ op.i > 0 /\ op.j > op.i

\* Every sub layer of v lies inside the sequence it wraps.
RECURSIVE SubsInBounds(_, _)
SubsInBounds(memory, v) ==
    CASE v.kind = "sub" ->
            /\ 0 <= v.i /\ 0 <= v.n
            /\ v.i + v.n <= LenOf(memory, v.s)
            /\ SubsInBounds(memory, v.s)
      [] v.kind = "rev" -> SubsInBounds(memory, v.s)
      [] OTHER -> TRUE

\* C6: NewSub(s, i, j) panics, returning no view, exactly when i < 0 or
\* j < i or j > s.Len(); a view it returned has 0 <= offset and offset +
\* count <= the length of the sequence it wraps, and Len / Less / Swap never
\* change a view.
C6_NewSubPanicsOutOfRange ==
    /\ op.f = "NewSub" =>
          /\ panicked <=> (op.i < 0 \/ op.j < op.i \/ op.j > LenOf(pre.mem, pre.view))
          /\ panicked => view = pre.view
          /\ ~panicked => (view.kind = "sub" /\ view.n = op.j - op.i)
    /\ SubsInBounds(mem, view)
    /\ op.f \in {"Len", "Less", "Swap"} => view = pre.view

\* A request that reaches past the end of a view but not of the slice under it.
C6_Witness ==
    /\ op.f = "NewSub" /\ panicked /\ pre.view.kind = "sub"
    /\ op.i >= 0 /\ op.j >= op.i
    /\ op.j = pre.view.n + 1
    /\ pre.view.i + op.j <= Len(mem.s)

\* s.Less(i, j), s.Less(j, i) of the sequence s a rev wraps, before the call.
BaseLess(i, j) == IfaceLess(Machine(pre.mem), view.s, i, j).b

\* C10 as stated: for r = NewRev(s), r.Less(i, j) is the negation of
\* s.Less(i, j) for every index pair in range, i = j and equal elements
\* included.
C10_RevLessNegates ==
    (op.f = "Less" /\ view.kind = "rev") => op.b = ~BaseLess(op.i, op.j)

\* C10 as amended: r.Len() = s.Len(), r.Swap(i, j) has the effect of
\* s.Swap(i, j), and r.Less(i, j) is the negation of s.Less(i, j) for every
\* pair that s orders one way or the other; for the other pairs (i = j, equal
\* elements) it is the negation only with the body !Less(i, j), and
\* s.Less(j, i) with the body Less(j, i).
C10_RevLessNegatesOrderedPairs ==
    view.kind = "rev" =>
        /\ op.f = "Len" => op.n = LenOf(pre.mem, view.s)
        /\ op.f = "Swap" => mem = IfaceSwap(Machine(pre.mem), view.s, op.i, op.j).mem
        /\ op.f = "Less" =>
              /\ BaseLess(op.i, op.j) # BaseLess(op.j, op.i) => op.b = ~BaseLess(op.i, op.j)
              /\ build = "not" => op.b = ~BaseLess(op.i, op.j)
              /\ build = "swapped" => op.b = BaseLess(op.j, op.i)

\* A comparison through a rev of two different elements.
C10_Witness ==
    /\ op.f = "Less" /\ view.kind = "rev" /\ ~panicked
    /\ op.i # op.j
    /\ BaseLess(op.i, op.j) # BaseLess(op.j, op.i)
    /\ op.b

\* No rev layer of v wraps a rev.
RECURSIVE NoRevOfRev(_)
NoRevOfRev(v) ==
    CASE v.kind = "rev" -> v.s.kind # "rev" /\ NoRevOfRev(v.s)
      [] v.kind = "sub" -> NoRevOfRev(v.s)
      [] OTHER -> TRUE

\* C11: NewRev(NewRev(s)) is s itself, not a rev of a rev: NewRev of a view
\* r = rev{s} returns the s it wraps, no view built holds a rev of a rev, and
\* for whatever view s the program holds, the value of NewRev(NewRev(s)) is
\* s; so NewRev of the view r a NewRev(s) returned has the Len, the
\* Less(i, j) and the Swap(i, j) of s for every index pair.
C11_RevOfRevIsOriginal ==
    LET M == Machine(mem) IN
    /\ NoRevOfRev(view)
    /\ NewRev(M, NewRev(M, view).v).v = view
    /\ (op.f = "NewRev" /\ pre.view.kind = "rev") =>
          /\ ~panicked
          /\ view = pre.view.s
          /\ view.kind # "rev"
          /\ calls = <<>>
          /\ mem = pre.mem
    /\ op.f = "NewRev" =>
          LET s     == pre.view
              twice == NewRev(M, view).v
          IN  /\ twice = s
              /\ IfaceLen(M, twice).n = IfaceLen(M, s).n
              /\ \A i, j \in 0..(LenOf(mem, s) - 1) :
                    /\ IfaceLess(M, twice, i, j).b = IfaceLess(M, s, i, j).b
                    /\ IfaceSwap(M, twice, i, j).mem = IfaceSwap(M, s, i, j).mem

\* NewRev of a rev of a window of two or more elements gave the window back.
C11_Witness ==
    /\ op.f = "NewRev" /\ pre.view.kind = "rev" /\ ~panicked
    /\ view.kind = "sub" /\ view.n >= 2 /\ view.i > 0
    /\ At(mem.s, view.i) # At(mem.s, view.i + 1)

\* ------------------------------------------------------------------------
\* NewProxy over three slices, as in TestNewProxy: comp c, the unsorted
\* 0, n-1, 1, n-2, ... , and the items of data chosen among a letter sequence
\* p and an int sequence q, of any lengths.

comp == ByteSlice("c")

\* sort.IntSlice{0, 9, 1, 8, 2, 7, 3, 6, 4, 5} for n = 10
ZigZag(n) == [x \in 1..n |-> IF x % 2 = 1 THEN (x - 1) \div 2 ELSE n - (x \div 2)]

InitProxy ==
    /\ \E n, lp, lq \in 0..MaxLen :
          mem = [a \in {"c", "p", "q"} |->
                    IF a = "c" THEN ZigZag(n) ELSE IF a = "p" THEN NewLetterSeq(lp) ELSE NewIntSeq(lq)]
    /\ view = Nil
    /\ pre = Now
    /\ mem0 = mem
    /\ calls = <<>>
    /\ panicked = FALSE
    /\ op = NoOp
    /\ build = "not"
    /\ made = NoCalls

\* view = NewProxy(c, items...); a panic leaves no proxy.
DoNewProxy ==
    /\ ~panicked
    /\ view.kind = "nil"
    /\ \E items \in {<<>>, <<ByteSlice("p")>>, <<ByteSlice("q")>>,
                     <<ByteSlice("p"), ByteSlice("q")>>, <<ByteSlice("q"), ByteSlice("p")>>} :
          LET m == NewProxy(Machine(mem), comp, items) IN
          /\ Ran(m, [NoOp EXCEPT !.f = "NewProxy", !.data = items])
          /\ view' = IF m.panic THEN view ELSE m.v
    /\ pre' = Now
    /\ mem0' = mem
    /\ UNCHANGED <<build, made>>

NextProxy == DoNewProxy \/ DoLen \/ DoLess \/ DoSwap

SpecProxy == InitProxy /\ [][NextProxy]_vars

\* ------------------------------------------------------------------------
\* Claims about proxy (checked under SpecProxy)

\* Where the element e was in the sequence s (of distinct elements).
OrigPos(s, e) == CHOOSE x \in 1..Len(s) : s[x] = e

\* C7: after any Swap calls on a proxy, the element now at x in each
\* secondary started at the position at which the element now at x in the
\* primary started.
C7_ProxyTracksPermutation ==
    view.kind = "proxy" =>
        \A k \in 1..Len(view.d) :
            LET a == view.d[k].id IN
            /\ Len(mem[a]) = Len(mem.c)
            /\ \A x \in 1..Len(mem.c) :
                  OrigPos(mem0[a], mem[a][x]) = OrigPos(mem0.c, mem.c[x])

\* Two secondaries have followed the primary out of its original order.
C7_Witness ==
    /\ view.kind = "proxy" /\ Len(view.d) = 2
    /\ op.f = "Swap" /\ op.i # op.j
    /\ Len(mem.c) >= 3
    /\ \A x \in 1..Len(mem.c) : mem.c[x] # mem0.c[x]

\* The Swap(i, j) calls a proxy.Swap(i, j) makes on the items of d, in order.
RECURSIVE SwapCalls(_, _, _)
SwapCalls(d, i, j) ==
    IF d = <<>> THEN <<>>
    ELSE <<Call(d[1].id, "Swap", i, j)>> \o SwapCalls(Tail(d), i, j)

\* C8: a Swap(i, j) on a proxy makes one Swap(i, j) on the primary, then one
\* Swap(i, j) on each secondary in the order given to NewProxy, and nothing
\* else; Len and Less on a proxy call the primary only.
C8_ProxySwapOrder ==
    view.kind = "proxy" =>
        /\ op.f = "Swap" =>
              calls = <<Call(view.c.id, "Swap", op.i, op.j)>> \o SwapCalls(view.d, op.i, op.j)
        /\ op.f = "Less" => calls = <<Call(view.c.id, "Less", op.i, op.j)>>
        /\ op.f = "Len" => calls = <<Call(view.c.id, "Len", -1, -1)>>

C8_Witness ==
    /\ view.kind = "proxy" /\ op.f = "Swap" /\ op.i # op.j
    /\ view.d = <<ByteSlice("q"), ByteSlice("p")>>
    /\ Len(calls) = 3

\* C9: NewProxy(comp, data...) panics, returning no proxy, exactly when an
\* item of data has a Len other than comp's; it has then made no call but
\* Len on comp or an item, and with no item it never panics.
C9_NewProxyPanicsOnLength ==
    op.f = "NewProxy" =>
        /\ panicked <=>
              \E k \in 1..Len(op.data) : Len(pre.mem[op.data[k].id]) # Len(pre.mem.c)
        /\ \A x \in 1..Len(calls) : calls[x].f = "Len"
        /\ mem = pre.mem
        /\ panicked => view = Nil
        /\ ~panicked => view = proxy(comp, op.data)
        /\ op.data = <<>> => ~panicked

\* The first item has comp's length and the second has not.
C9_Witness ==
    /\ op.f = "NewProxy" /\ panicked /\ Len(op.data) = 2
    /\ Len(mem[op.data[1].id]) = Len(mem.c)
    /\ Len(mem[op.data[2].id]) # Len(mem.c)

\* ------------------------------------------------------------------------
\* Calls made on a view with a count of them kept: made counts the calls by
\* method and holds what the last Len call returned.

\* The indices the calls are made with: the first and the last.
Indices(n) == {x \in 0..(n - 1) : x = 0 \/ x = n - 1}

CallLen ==
    /\ ~panicked
    /\ view.kind # "nil"
    /\ made.Len < MaxCalls
    /\ LET m == IfaceLen(Machine(mem), view) IN
          /\ Ran(m, [NoOp EXCEPT !.f = "Len"])
          /\ made' = [made EXCEPT !.Len = @ + 1, !.last = m.n]
    /\ pre' = Now
    /\ UNCHANGED <<view, mem0, build>>

CallLess ==
    /\ ~panicked
    /\ view.kind # "nil"
    /\ made.Less < MaxCalls
    /\ \E i, j \in Indices(LenOf(mem, view)) :
          Ran(IfaceLess(Machine(mem), view, i, j), [NoOp EXCEPT !.f = "Less", !.i = i, !.j = j])
    /\ made' = [made EXCEPT !.Less = @ + 1]
    /\ pre' = Now
    /\ UNCHANGED <<view, mem0, build>>

CallSwap ==
    /\ ~panicked
    /\ view.kind # "nil"
    /\ made.Swap < MaxCalls
    /\ \E i, j \in Indices(LenOf(mem, view)) :
          Ran(IfaceSwap(Machine(mem), view, i, j), [NoOp EXCEPT !.f = "Swap", !.i = i, !.j = j])
    /\ made' = [made EXCEPT !.Swap = @ + 1]
    /\ pre' = Now
    /\ UNCHANGED <<view, mem0, build>>

\* ------------------------------------------------------------------------
\* A Stat over a letter sequence s, over its inverted view, or over a Log of
\* it, built by &Stat{I: data}, NewStat or NewLogStat.

Wrapped == {Letters("s"), ByteSlice("s"), rev(ByteSlice("s"))}

InitStat ==
    /\ \E n \in 0..MaxStatLen :
          mem = [s |-> NewLetterSeq(n), st |-> Nil, lg |-> Nil,
                 LOG_ITEM_THRESH |-> LOG_ITEM_THRESH]
    /\ view = Nil
    /\ pre = Now
    /\ mem0 = mem
    /\ calls = <<>>
    /\ panicked = FALSE
    /\ op = NoOp
    /\ build \in {"not", "swapped"}
    /\ made = NoCalls

\* view = &Stat{I: data}
DoAllocStat ==
    /\ view.kind = "nil"
    /\ \E I \in Wrapped :
          LET m == AllocStat(Machine(mem), "st", I, <<>>, TRUE) IN
          /\ Ran(m, [NoOp EXCEPT !.f = "AllocStat"])
          /\ view' = m.v
          /\ mem0' = m.mem
    /\ pre' = Now
    /\ UNCHANGED <<build, made>>

\* view = NewStat(data)
DoNewStat ==
    /\ view.kind = "nil"
    /\ \E I \in Wrapped :
          LET m == NewStat(Machine(mem), I) IN
          /\ Ran(m, [NoOp EXCEPT !.f = "NewStat"])
          /\ view' = m.v
          /\ mem0' = m.mem
    /\ pre' = Now
    /\ UNCHANGED <<build, made>>

\* view = NewLogStat(w, data)
DoNewLogStat ==
    /\ view.kind = "nil"
    /\ \E I \in {Letters("s"), ByteSlice("s")} :
          LET m == NewLogStat(Machine(mem), I) IN
          /\ Ran(m, [NoOp EXCEPT !.f = "NewLogStat"])
          /\ view' = m.v
          /\ mem0' = m.mem
    /\ pre' = Now
    /\ UNCHANGED <<build, made>>

NextStat == DoAllocStat \/ DoNewStat \/ DoNewLogStat \/ CallLen \/ CallLess \/ CallSwap

SpecStat == InitStat /\ [][NextStat]_vars

\* ------------------------------------------------------------------------
\* Claims about Stat (checked under SpecStat)

\* The Stat struct as it is and as it was before the last call.
TheStat == mem[view.id]
PreStat == pre.mem[view.id]

\* C12: after any Len, Less and Swap calls made on a Stat in any order, N.Len,
\* N.Less and N.Swap are the numbers of Len, Less and Swap calls made; each
\* call adds one to its own counter of N and leaves the two others, and
\* returns what, makes the calls and leaves the sequence as the same call on
\* the wrapped sequence does.
C12_StatCountsCalls ==
    view.kind = "Stat" =>
        /\ ~panicked
        /\ TheStat.N = [Len |-> made.Len, Less |-> made.Less, Swap |-> made.Swap]
        /\ TheStat.I = mem0.st.I
        /\ op.f = "Len" =>
              LET w == IfaceLen(Machine(pre.mem), PreStat.I) IN
              /\ TheStat.N = [PreStat.N EXCEPT !.Len = @ + 1]
              /\ op.n = w.n /\ calls = w.calls /\ mem.s = w.mem.s /\ op.out = w.out
        /\ op.f = "Less" =>
              LET w == IfaceLess(Machine(pre.mem), PreStat.I, op.i, op.j) IN
              /\ TheStat.N = [PreStat.N EXCEPT !.Less = @ + 1]
              /\ op.b = w.b /\ calls = w.calls /\ mem.s = w.mem.s /\ op.out = w.out
        /\ op.f = "Swap" =>
              LET w == IfaceSwap(Machine(pre.mem), PreStat.I, op.i, op.j) IN
              /\ TheStat.N = [PreStat.N EXCEPT !.Swap = @ + 1]
              /\ calls = w.calls /\ mem.s = w.mem.s /\ op.out = w.out

\* Calls of all three methods made on a Stat with per-element counts, the
\* last one a Swap that changed the sequence.
C12_Witness ==
    /\ view.kind = "Stat" /\ ~TheStat.Onil
    /\ made.Len >= 1 /\ made.Less >= 2 /\ made.Swap >= 1
    /\ op.f = "Swap" /\ mem.s # pre.mem.s

\* ------------------------------------------------------------------------
\* A Log over a letter sequence s, alone or under a Stat, with the package
\* variable LOG_ITEM_THRESH set below, at or above the length of s; the Log
\* alone may be pointed at a longer sequence t for a later sort.

InitLog ==
    /\ \E n \in {0, 1, MaxLogLen - 1, MaxLogLen} :
       \E T \in {-1, 1, MaxLogLen - 1, LOG_ITEM_THRESH} :
          mem = [s |-> NewLetterSeq(n), t |-> NewLetterSeq(MaxLogLen + 1),
                 st |-> Nil, lg |-> Nil, LOG_ITEM_THRESH |-> T]
    /\ view = Nil
    /\ pre = Now
    /\ mem0 = mem
    /\ calls = <<>>
    /\ panicked = FALSE
    /\ op = NoOp
    /\ build = "not"
    /\ made = NoCalls

\* view = &Log{I: data, W: w}
DoAllocLog ==
    /\ view.kind = "nil"
    /\ \E I \in {Letters("s"), ByteSlice("s")} :
          LET m == AllocLog(Machine(mem), "lg", I) IN
          /\ Ran(m, [NoOp EXCEPT !.f = "AllocLog"])
          /\ view' = m.v
          /\ mem0' = m.mem
    /\ pre' = Now
    /\ UNCHANGED <<build, made>>

\* view.I = t: the same Log on another sequence, between two sorts.
DoRebind ==
    /\ ~panicked
    /\ view.kind = "Log"
    /\ mem[view.id].I.id = "s"
    /\ mem' = [mem EXCEPT ![view.id].I = Letters("t")]
    /\ calls' = <<>>
    /\ op' = [NoOp EXCEPT !.f = "Rebind"]
    /\ pre' = Now
    /\ UNCHANGED <<panicked, view, mem0, build, made>>

NextLog == DoAllocLog \/ DoNewLogStat \/ DoRebind \/ CallLen \/ CallLess \/ CallSwap

SpecLog == InitLog /\ [][NextLog]_vars

\* ------------------------------------------------------------------------
\* Claims about Log (checked under SpecLog)

\* The Log struct as it is and as it was before the last call; the threshold.
TheLog == mem.lg
PreLog == pre.mem.lg
Threshold == mem.LOG_ITEM_THRESH

\* The length of the sequence the Log wraps.
WrappedLen == Len(mem[TheLog.I.id])

\* The last call was a Less or a Swap made through the Log.
LoggedLessOrSwap == view.kind # "nil" /\ op.f \in {"Less", "Swap"} /\ ~panicked

\* C14 as stated: every Less and Swap call made through a Log on a sequence
\* of length L > 0 writes one line, which shows the sequence if the
\* threshold T is at or above L and does not if T is below L.
C14_LogThreshold ==
    (LoggedLessOrSwap /\ WrappedLen > 0) =>
        /\ Len(op.out) = 1
        /\ op.out[1].inline <=> Threshold >= WrappedLen

\* C14 as amended: the line shows the sequence exactly if 0 < n <= T for the
\* length n the Log holds from the last Len call made through it (0 before
\* the first); so after a Len call on the sequence it is still on, exactly if
\* T >= L, and before the first Len call never.  A line that shows the
\* sequence shows Mark(i, j) of it: before the call for Less, before and
\* after for Swap.
C14_LogThresholdCachedLength ==
    LoggedLessOrSwap =>
        LET line == op.out[1]
            mark == Log_Mark(Machine(pre.mem), LogAt("lg"), op.i, op.j).str
        IN  /\ Len(op.out) = 1
            /\ line.f = op.f /\ line.i = op.i /\ line.j = op.j
            /\ line.inline <=> (0 < made.last /\ made.last <= Threshold)
            /\ (made.last = WrappedLen /\ WrappedLen > 0) =>
                  (line.inline <=> Threshold >= WrappedLen)
            /\ made.Len = 0 => ~line.inline
            /\ Threshold < 0 => ~line.inline
            /\ line.inline => line.before = mark
            /\ (line.inline /\ op.f = "Swap") =>
                  line.after = Log_Mark(Machine(mem), LogAt("lg"), op.i, op.j).str
            /\ ~line.inline => (line.before = <<>> /\ line.after = <<>>)

\* A Swap logged with the sequence before and after it, the threshold being
\* the length of the sequence.
C14_Witness ==
    /\ LoggedLessOrSwap /\ op.f = "Swap" /\ op.i # op.j
    /\ WrappedLen > 1 /\ Threshold = WrappedLen
    /\ op.out[1].inline
    /\ op.out[1].before # op.out[1].after

\* C17: a Log holds in n what the last Len call made through it returned (0
\* before the first) and in p the number of decimal digits of n - 1 if n > 0
\* and 0 otherwise; a Less or Swap call leaves n and p as they are and pads
\* its indices to p, and a Len call sets both from the length it finds,
\* whatever they were.
C17_LogCachedState ==
    view.kind # "nil" =>
        /\ TheLog.n = made.last
        /\ TheLog.n <= 0 => TheLog.p = 0
        /\ TheLog.n > 0 =>
              /\ TheLog.p >= 1
              /\ TheLog.n - 1 < 10 ^ TheLog.p
              /\ TheLog.p > 1 => TheLog.n - 1 >= 10 ^ (TheLog.p - 1)
        /\ (op.f \in {"Less", "Swap"}) =>
              /\ TheLog.n = PreLog.n /\ TheLog.p = PreLog.p
              /\ ~panicked => op.out[1].w = TheLog.p
        /\ (op.f = "Len" /\ ~panicked) =>
              /\ TheLog.n = op.n
              /\ TheLog.n = WrappedLen
              /\ op.out[1].n = op.n

\* A Len call that replaced a length of one digit's width by one of two.
C17_Witness ==
    /\ view.kind = "Log" /\ op.f = "Len" /\ ~panicked
    /\ made.Len = 2
    /\ PreLog.n > 0 /\ PreLog.p = 1
    /\ TheLog.n > PreLog.n /\ TheLog.p = 2

====
